---------------------------- MODULE Spec2Model ----------------------------
(***************************************************************************)
(* Model of url_to_pdf.py: book discovery (get_book_details), chapter      *)
(* rendering and table-of-contents assembly (create_book_pdf), and the     *)
(* script's entry point.                                                   *)
(*                                                                         *)
(* Text is a sequence of characters over {"a", " "}; a character's width   *)
(* is GlyphW or SpaceW.  The page is a scaled-down sheet: widths and       *)
(* heights are integers in the renderer's unit.  The renderer operations   *)
(* the script calls (add_page, cell, multi_cell, get_string_width) are     *)
(* modelled by what the fpdf library does with the cursor and the pages.   *)
(* A chapter's heading fits on its fresh page; the height of its image and *)
(* text is an input, drawn as the number of further pages they run over.   *)
(***************************************************************************)
EXTENDS Integers, Sequences, FiniteSets, TLC

\* ------------------------------------------------------------------ bounds
MaxChapters == 2      \* most <a> tags in the main page's table of contents
MaxTitleLen == 3      \* most characters in a chapter title
MaxBodyPages == 1     \* most further pages a chapter's text runs over
GlyphW == 4           \* width of the character "a" at the TOC font size
SpaceW == 2           \* width of the character " " at the TOC font size
PageW == 35           \* pdf.w, the sheet's width
PageH == 49           \* pdf.h, the sheet's height
Margin == 2           \* the renderer's default left/top/right margin
CMargin == 2          \* pdf.c_margin, a cell's inner horizontal margin

\* ------------------------------------------------- the renderer's geometry
l_margin == Margin
r_margin == Margin
t_margin == Margin
c_margin == CMargin
\* Automatic page breaks are on with a bottom margin of twice the margin.
page_break_trigger == PageH - 2 * Margin

\* ------------------------------------------------------- layout constants
page_num_col_width == 20
line_height == 7
toc_heading_height == 15
toc_heading_gap == 10
toc_entry_gap == 4
available_width == PageW - l_margin - r_margin
title_col_width == available_width - page_num_col_width

\* ------------------------------------------------------------------- text
Chars == {"a", " "}

RECURSIVE SeqsUpTo(_, _)
SeqsUpTo(S, n) ==
    IF n = 0 THEN {<<>>}
    ELSE LET shorter == SeqsUpTo(S, n - 1)
         IN shorter \cup {Append(s, c) : s \in {t \in shorter : Len(t) = n - 1}, c \in S}

\* a_tag.text.strip(): no leading and no trailing blank
Stripped(s) == Len(s) = 0 \/ (s[1] # " " /\ s[Len(s)] # " ")

Titles == {s \in SeqsUpTo(Chars, MaxTitleLen) : Stripped(s)}

char_width(c) == IF c = " " THEN SpaceW ELSE GlyphW

RECURSIVE get_string_width(_)
get_string_width(s) ==
    IF s = <<>> THEN 0 ELSE char_width(Head(s)) + get_string_width(Tail(s))

\* title.split(' '): every single blank separates, empty words are kept
RECURSIVE SplitFrom(_, _, _, _)
SplitFrom(s, idx, cur, acc) ==
    IF idx > Len(s) THEN Append(acc, cur)
    ELSE IF s[idx] = " " THEN SplitFrom(s, idx + 1, <<>>, Append(acc, cur))
    ELSE SplitFrom(s, idx + 1, Append(cur, s[idx]), acc)

split(s) == SplitFrom(s, 1, <<>>, <<>>)


\* --------------------------------------------- TOC line-count estimation
\* The loop over words: lines starts at 1 and current_line_text at ''.
RECURSIVE EstimateLoop(_, _, _, _)
EstimateLoop(words, n, lines, current_line_text) ==
    IF n > Len(words) THEN lines
    ELSE LET word == words[n]
             candidate == current_line_text \o word \o <<" ">>
         IN IF get_string_width(candidate) > title_col_width
            THEN EstimateLoop(words, n + 1, lines + 1, word \o <<" ">>)
            ELSE EstimateLoop(words, n + 1, lines, candidate)

estimate_lines(title) == EstimateLoop(split(title), 1, 1, <<>>)

\* variant: a strict comparison at the trigger
needs_page_break_Strict(yy, title_height) == yy + title_height > page_break_trigger

needs_page_break(yy, title_height) == yy + title_height >= page_break_trigger

\* ----------------------------------------------------------- the renderer
\* The document is the sequence of its pages, a page the sequence of the
\* items drawn on it.
Item(kind, ch) == [kind |-> kind, ch |-> ch]

add_page(pgs) == Append(pgs, <<>>)

\* variant: the page count before the page just added
page_no_ZeroBased(pgs) == Len(pgs) - 1

page_no(pgs) == Len(pgs)

draw(pgs, item) == [pgs EXCEPT ![Len(pgs)] = Append(@, item)]

\* cell(w, h, txt, ln > 0): an automatic page break when the cell does not
\* fit above the trigger, then the cell, then the cursor moves down by h.
cell(pgs, yy, h, item) ==
    IF yy + h > page_break_trigger
    THEN [pages |-> draw(add_page(pgs), item), y |-> t_margin + h]
    ELSE [pages |-> draw(pgs, item), y |-> yy + h]

\* multi_cell's scan of the text: i, j index the text from 0, l is the width
\* of the line so far, sep the last blank seen (-1: none), nl the lines so
\* far.  The result is the number of lines (cells) drawn.
RECURSIVE WrapScan(_, _, _, _, _, _, _)
WrapScan(s, wmax, i, j, l, sep, nl) ==
    IF i >= Len(s) THEN nl
    ELSE LET c == s[i + 1]
             sep1 == IF c = " " THEN i ELSE sep
             l1 == l + char_width(c)
         IN IF l1 > wmax
            THEN IF sep1 = -1
                 THEN LET i2 == IF i = j THEN i + 1 ELSE i
                      IN WrapScan(s, wmax, i2, i2, 0, -1, nl + 1)
                 ELSE WrapScan(s, wmax, sep1 + 1, sep1 + 1, 0, -1, nl + 1)
            ELSE WrapScan(s, wmax, i + 1, j, l1, sep1, nl)

wrap_lines(txt, w) == WrapScan(txt, w - 2 * c_margin, 0, 0, 0, -1, 1)

\* n cells one below the other (each cell's result is bound once)
RECURSIVE Cells(_, _, _, _, _)
Cells(pgs, yy, h, n, item) ==
    IF n = 0 THEN [pages |-> pgs, y |-> yy]
    ELSE LET rest == {Cells(c.pages, c.y, h, n - 1, item) :
                          c \in {cell(pgs, yy, h, item)}}
         IN CHOOSE r \in rest : TRUE

multi_cell(pgs, yy, w, h, txt, item) == Cells(pgs, yy, h, wrap_lines(txt, w), item)

\* ------------------------------------------------------------------ state
VARIABLES
    pc,            \* where the script is
    panel,         \* the fetched main page's title markup
    toc_div,       \* the fetched main page's table of contents
    error,         \* the exception that reached the entry point's handler
    book_title,
    chapters,      \* the list get_book_details returned
    pages,         \* the document
    y,             \* the cursor's Y (followed from the TOC heading on)
    toc_entries,
    i,             \* the chapter loop's index (chapters finished)
    soup,          \* the parsed detail page of the chapter in progress
    fetch_failed,  \* chapters whose detail-page fetch raised
    temp_files,    \* temp_image_for_pdf_<i>.jpg files on disk
    k,             \* the TOC loop's index (entries drawn)
    last,          \* the measurements of the TOC entry drawn last
    output         \* the PDF file: "none", "written", "save_failed"

vars == <<pc, panel, toc_div, error, book_title, chapters, pages, y, toc_entries,
          i, soup, fetch_failed, temp_files, k, last, output>>

NoSoup == [img |-> "-", body |-> "-"]
NoEntry == [title |-> <<>>, lines |-> 0, page_before |-> 0, y_before |-> 0,
            start_page |-> 0, start_y |-> 0, title_end_page |-> 0, title_end_y |-> 0,
            cell_end_page |-> 0, cell_end_y |-> 0, end_page |-> 0, end_y |-> 0]

Init ==
    /\ pc = "main"
    /\ panel = "unfetched"
    /\ toc_div = "unfetched"
    /\ error = "none"
    /\ book_title = "-"
    /\ chapters = <<>>
    /\ pages = <<>>
    /\ y = 0
    /\ toc_entries = <<>>
    /\ i = 0
    /\ soup = NoSoup
    /\ fetch_failed = {}
    /\ temp_files = {}
    /\ k = 0
    /\ last = NoEntry
    /\ output = "none"

\* ------------------------------------------------------- get_book_details
\* The main page's title markup: no details panel, a panel without an inner
\* div, an inner div without an h1, or the h1.
PanelShapes == {"no_panel", "panel_no_div", "div_no_h1", "h1"}

\* details_panel.find('div').find('h1') if details_panel else None
book_title_tag(shape) ==
    CASE shape = "no_panel" -> "None"
      [] shape = "panel_no_div" -> "AttributeError"
      [] shape = "div_no_h1" -> "None"
      [] OTHER -> "h1"

Anchors == [text : Titles, href : BOOLEAN]

\* the chapters of the <a> tags that carry an href, in link order
\* (a chapter's url stands for urljoin(main_url, href): the link's place)
RECURSIVE ChaptersFrom(_, _)
ChaptersFrom(anchors, n) ==
    IF n > Len(anchors) THEN <<>>
    ELSE IF anchors[n].href
    THEN <<[title |-> anchors[n].text, url |-> n]>> \o ChaptersFrom(anchors, n + 1)
    ELSE ChaptersFrom(anchors, n + 1)

extract_chapters(anchors) == ChaptersFrom(anchors, 1)

Critical(e) ==
    /\ pc' = "critical"
    /\ error' = e
    /\ UNCHANGED <<book_title, chapters>>

\* get_book_details(digilib_url) as called from the entry point; an
\* exception ends the script in the entry point's handler.
GetBookDetails ==
    /\ pc = "main"
    /\ \E status \in {"ok", "failed"}, shape \in PanelShapes,
          container \in BOOLEAN, anchors \in SeqsUpTo(Anchors, MaxChapters) :
         IF status = "failed"
         THEN /\ Critical("RequestException")
              /\ UNCHANGED <<panel, toc_div>>
         ELSE /\ panel' = shape
              /\ toc_div' = IF ~container THEN "absent"
                            ELSE IF extract_chapters(anchors) = <<>> THEN "no_links"
                            ELSE "links"
              /\ IF book_title_tag(shape) = "AttributeError"
                 THEN Critical("AttributeError")
                 ELSE IF ~container
                 THEN Critical("ValueError: no table of contents")
                 ELSE IF extract_chapters(anchors) = <<>>
                 THEN Critical("ValueError: no chapters")
                 ELSE /\ book_title' = IF book_title_tag(shape) = "h1"
                                       THEN "Book" ELSE "Untitled Book"
                      /\ chapters' = extract_chapters(anchors)
                      /\ pc' = "create"
                      /\ UNCHANGED error
    /\ UNCHANGED <<pages, y, toc_entries, i, soup, fetch_failed, temp_files, k,
                   last, output>>

\* ------------------------------------------------------- create_book_pdf
\* Lines 64-98: the font check, then the title page.
CreateBookPdf ==
    /\ pc = "create"
    /\ \E fonts_exist \in BOOLEAN :
         IF ~fonts_exist
         THEN /\ pc' = "no_fonts"
              /\ UNCHANGED <<pages, y>>
         ELSE /\ pages' = draw(add_page(pages), Item("book_title", 0))
              /\ y' = t_margin
              /\ pc' = "loop"
    /\ UNCHANGED <<panel, toc_div, error, book_title, chapters, toc_entries, i,
                   soup, fetch_failed, temp_files, k, last, output>>

\* variant: a title already recorded is not recorded again
record_toc_entry_Dedup(entries, chapter, page) ==
    IF \E n \in 1..Len(entries) : entries[n].title = chapter.title
    THEN entries
    ELSE Append(entries, [title |-> chapter.title, page |-> page])

\* variant: the newest entry goes first
record_toc_entry_Prepend(entries, chapter, page) ==
    <<[title |-> chapter.title, page |-> page]>> \o entries

record_toc_entry(entries, chapter, page) ==
    Append(entries, [title |-> chapter.title, page |-> page])

\* Lines 101-109: the chapter's page, its TOC entry, its heading.
ChapterBegin ==
    /\ pc = "loop"
    /\ i < Len(chapters)
    /\ LET chapter == chapters[i + 1]
           started == add_page(pages)
       IN /\ toc_entries' = record_toc_entry(toc_entries, chapter, page_no(started))
          /\ pages' = draw(started, Item("title", i + 1))
    /\ y' = t_margin
    /\ pc' = "fetch"
    /\ UNCHANGED <<panel, toc_div, error, book_title, chapters, i, soup,
                   fetch_failed, temp_files, k, last, output>>

\* The end of a loop iteration.
NextChapter ==
    /\ i' = i + 1
    /\ soup' = NoSoup
    /\ pc' = "loop"

\* variant: the exception is not caught in the loop and reaches the entry point
handle_request_exception_Abort ==
    /\ pc' = "critical"
    /\ error' = "RequestException"
    /\ UNCHANGED <<pages, i, soup>>

\* except requests.exceptions.RequestException (lines 158-161)
handle_request_exception ==
    /\ pages' = draw(pages, Item("error_fetching", i + 1))
    /\ NextChapter
    /\ UNCHANGED error

\* except Exception (lines 162-165)
handle_exception ==
    /\ pages' = draw(pages, Item("error_occurred", i + 1))
    /\ NextChapter
    /\ UNCHANGED error

Soups == [img : {"none", "no_src", "img"}, body : {"absent", "paragraphs", "plain"}]

\* Lines 113-115: the detail page.
ChapterFetch ==
    /\ pc = "fetch"
    /\ \E fetched \in BOOLEAN, s \in Soups :
         IF ~fetched
         THEN /\ handle_request_exception
              /\ fetch_failed' = fetch_failed \cup {i + 1}
         ELSE /\ soup' = s
              /\ pc' = "image"
              /\ UNCHANGED <<pages, i, error, fetch_failed>>
    /\ UNCHANGED <<panel, toc_div, book_title, chapters, y, toc_entries,
                   temp_files, k, last, output>>

\* Lines 118-128: the image's tag, its download, the temporary file.
ChapterImageDownload ==
    /\ pc = "image"
    /\ IF soup.img = "none"
       THEN /\ pc' = "text"
            /\ UNCHANGED <<pages, i, soup, error, temp_files>>
       ELSE IF soup.img = "no_src"
       THEN /\ handle_exception
            /\ UNCHANGED temp_files
       ELSE \E result \in {"download_failed", "open_failed", "saved"} :
              CASE result = "download_failed" ->
                     /\ handle_request_exception
                     /\ UNCHANGED temp_files
                [] result = "open_failed" ->
                     /\ handle_exception
                     /\ UNCHANGED temp_files
                [] OTHER ->
                     /\ temp_files' = temp_files \cup {i}
                     /\ pc' = "embed"
                     /\ UNCHANGED <<pages, i, soup, error>>
    /\ UNCHANGED <<panel, toc_div, book_title, chapters, y, toc_entries,
                   fetch_failed, k, last, output>>

\* Lines 130-132: pdf.image, os.remove, pdf.ln.  The image may start a page.
ChapterImageEmbed ==
    /\ pc = "embed"
    /\ \E embedded \in BOOLEAN, page_break \in BOOLEAN :
         IF ~embedded
         THEN /\ handle_exception
              /\ UNCHANGED temp_files
         ELSE /\ pages' = draw(IF page_break THEN add_page(pages) ELSE pages,
                               Item("image", i + 1))
              /\ temp_files' = temp_files \ {i}
              /\ pc' = "text"
              /\ UNCHANGED <<i, soup, error>>
    /\ UNCHANGED <<panel, toc_div, book_title, chapters, y, toc_entries,
                   fetch_failed, k, last, output>>

\* The text drawn over the current page and `more` further pages.
RECURSIVE draw_over(_, _, _)
draw_over(pgs, item, more) ==
    IF more = 0 THEN draw(pgs, item)
    ELSE draw(add_page(draw_over(pgs, item, more - 1)), item)

\* Lines 135-156: the text container, its paragraphs or its whole text (both
\* are text on the page), or the placeholder.  Drawing may raise; the text
\* may run over further pages.
ChapterText ==
    /\ pc = "text"
    /\ IF soup.body = "absent"
       THEN /\ pages' = draw(pages, Item("no_text", i + 1))
            /\ NextChapter
            /\ UNCHANGED error
       ELSE \E raised \in BOOLEAN, more \in 0..MaxBodyPages :
              IF raised
              THEN handle_exception
              ELSE /\ pages' = draw_over(pages, Item("text", i + 1), more)
                   /\ NextChapter
                   /\ UNCHANGED error
    /\ UNCHANGED <<panel, toc_div, book_title, chapters, y, toc_entries,
                   fetch_failed, temp_files, k, last, output>>

\* Lines 168-177: the TOC's page and heading.
TocBegin ==
    /\ pc = "loop"
    /\ i = Len(chapters)
    /\ LET heading == cell(add_page(pages), t_margin, toc_heading_height,
                           Item("toc_heading", 0))
       IN /\ pages' = heading.pages
          /\ y' = heading.y + toc_heading_gap
    /\ pc' = "toc"
    /\ UNCHANGED <<panel, toc_div, error, book_title, chapters, toc_entries, i,
                   soup, fetch_failed, temp_files, k, last, output>>

\* Lines 180-217 for one entry, from the document and the cursor's Y: the
\* document and the cursor afterwards, and the entry's measurements.
toc_entry_layout(pgs, yy, n, entry) ==
    LET title == entry.title
        lines == estimate_lines(title)
        title_height == lines * line_height
        break == needs_page_break(yy, title_height)
        pgs0 == IF break THEN add_page(pgs) ELSE pgs
        start_y == IF break THEN t_margin ELSE yy
        drawn == multi_cell(pgs0, start_y, title_col_width, line_height, title,
                            Item("toc_title", n))
        \* set_xy(l_margin + title_col_width, start_y), on the current page
        number == cell(drawn.pages, start_y, title_height, Item("toc_page", n))
    IN [pages |-> number.pages,
        y |-> number.y + toc_entry_gap,
        last |-> [title |-> title, lines |-> lines,
                  page_before |-> page_no(pgs), y_before |-> yy,
                  start_page |-> page_no(pgs0), start_y |-> start_y,
                  title_end_page |-> page_no(drawn.pages), title_end_y |-> drawn.y,
                  cell_end_page |-> page_no(number.pages), cell_end_y |-> number.y,
                  end_page |-> page_no(number.pages),
                  end_y |-> number.y + toc_entry_gap]]

\* Lines 179-217: one entry of the TOC.
TocEntry ==
    /\ pc = "toc"
    /\ k < Len(toc_entries)
    /\ \E done \in {toc_entry_layout(pages, y, k + 1, toc_entries[k + 1])} :
         /\ pages' = done.pages
         /\ y' = done.y
         /\ last' = done.last
    /\ k' = k + 1
    /\ UNCHANGED <<pc, panel, toc_div, error, book_title, chapters, toc_entries, i,
                   soup, fetch_failed, temp_files, output>>

\* Lines 220-224: pdf.output, whose failure is caught.
Save ==
    /\ pc = "toc"
    /\ k = Len(toc_entries)
    /\ \E saved \in BOOLEAN : output' = IF saved THEN "written" ELSE "save_failed"
    /\ pc' = "done"
    /\ UNCHANGED <<panel, toc_div, error, book_title, chapters, pages, y,
                   toc_entries, i, soup, fetch_failed, temp_files, k, last>>

Next ==
    \/ GetBookDetails
    \/ CreateBookPdf
    \/ ChapterBegin
    \/ ChapterFetch
    \/ ChapterImageDownload
    \/ ChapterImageEmbed
    \/ ChapterText
    \/ TocBegin
    \/ TocEntry
    \/ Save

Spec == Init /\ [][Next]_vars

\* --------------------------------- create_book_pdf on a given chapter list
\* The call create_book_pdf(book_title, chapters) with a list such as
\* get_book_details returns: one to MaxChapters chapters, urls in link order.
LoopTitles == {<<"a">>, <<"a", " ", "a">>}

ChapterLists(titles) ==
    {[n \in 1..Len(ts) |-> [title |-> ts[n], url |-> n]] :
        ts \in {t \in SeqsUpTo(titles, MaxChapters) : Len(t) >= 1}}

CreateInit ==
    /\ pc = "create"
    /\ panel = "h1"
    /\ toc_div = "links"
    /\ error = "none"
    /\ book_title = "Book"
    /\ chapters \in ChapterLists(LoopTitles)
    /\ pages = <<>>
    /\ y = 0
    /\ toc_entries = <<>>
    /\ i = 0
    /\ soup = NoSoup
    /\ fetch_failed = {}
    /\ temp_files = {}
    /\ k = 0
    /\ last = NoEntry
    /\ output = "none"

CreateNext ==
    \/ CreateBookPdf
    \/ ChapterBegin
    \/ ChapterFetch
    \/ ChapterImageDownload
    \/ ChapterImageEmbed
    \/ ChapterText
    \/ TocBegin
    \/ TocEntry
    \/ Save

CreateSpec == CreateInit /\ [][CreateNext]_vars

\* ------------------------------------------- the TOC on given TOC entries
\* The state when the chapter loop has ended, for chapters without an image
\* whose plain text ran over 0..MaxBodyPages further pages.
RECURSIVE RenderedPlain(_, _, _)
RenderedPlain(pgs, spans, n) ==
    IF n > Len(spans) THEN pgs
    ELSE RenderedPlain(draw_over(draw(add_page(pgs), Item("title", n)),
                                 Item("text", n), spans[n]),
                       spans, n + 1)

RECURSIVE EntriesOf(_, _, _, _)
EntriesOf(chs, spans, n, page) ==
    IF n > Len(chs) THEN <<>>
    ELSE <<[title |-> chs[n].title, page |-> page]>>
         \o EntriesOf(chs, spans, n + 1, page + 1 + spans[n])

TocInit ==
    /\ pc = "loop"
    /\ panel = "h1"
    /\ toc_div = "links"
    /\ error = "none"
    /\ book_title = "Book"
    /\ chapters \in ChapterLists(Titles)
    /\ \E spans \in [1..Len(chapters) -> 0..MaxBodyPages] :
         /\ pages = RenderedPlain(<<<<Item("book_title", 0)>>>>, spans, 1)
         /\ toc_entries = EntriesOf(chapters, spans, 1, 2)
    /\ y = t_margin
    /\ i = Len(chapters)
    /\ soup = NoSoup
    /\ fetch_failed = {}
    /\ temp_files = {}
    /\ k = 0
    /\ last = NoEntry
    /\ output = "none"

TocNext ==
    \/ TocBegin
    \/ TocEntry
    \/ Save

TocSpec == TocInit /\ [][TocNext]_vars

\* ------------------------------------------------------------- properties
OnPage(p, item) == \E n \in 1..Len(pages[p]) : pages[p][n] = item

PagesOf(item) == {p \in 1..Len(pages) : OnPage(p, item)}

LoopEnded == pc \in {"toc", "done"} \/ (pc = "loop" /\ i = Len(chapters))

\* C1: when the chapter loop has ended, toc_entries holds one record per
\* chapter, the n-th with the n-th chapter's title, whatever the outcome of
\* each chapter (success, network error, no text container, exception).
C1_OneEntryPerChapterInOrder ==
    LoopEnded =>
        /\ Len(toc_entries) = Len(chapters)
        /\ \A n \in 1..Len(chapters) : toc_entries[n].title = chapters[n].title

C1_Witness ==
    /\ LoopEnded
    /\ Len(chapters) >= 2
    /\ chapters[1].title = chapters[2].title
    /\ PagesOf(Item("error_fetching", 1)) # {}
    /\ PagesOf(Item("error_occurred", 2)) # {}

\* C2: in every state the pages of toc_entries are non-decreasing in
\* sequence order.
C2_TocPagesNonDecreasing ==
    \A a, b \in 1..Len(toc_entries) :
        a < b => toc_entries[a].page <= toc_entries[b].page

C2_Witness ==
    /\ Len(toc_entries) >= 2
    /\ toc_entries[2].page > toc_entries[1].page + 1

\* C3: a chapter's TocEntry page is the page its title was written on: the
\* title is the first item of that page (the entry is taken after the new
\* page is started and before image and text), and stays there whatever
\* pages the chapter's content adds later.
C3_TocPageIsTitlePage ==
    \A n \in 1..Len(toc_entries) :
        LET p == toc_entries[n].page
        IN /\ p \in 1..Len(pages)
           /\ Len(pages[p]) >= 1
           /\ pages[p][1] = Item("title", n)
           /\ PagesOf(Item("title", n)) = {p}

C3_Witness ==
    \E n \in 1..Len(toc_entries) :
        /\ \E q \in PagesOf(Item("image", n)) : q > toc_entries[n].page
        /\ \E q \in PagesOf(Item("text", n)) : q > toc_entries[n].page + 1

\* C4: the estimate is 1 line for a title narrower than the title column,
\* and W lines for a title of W words each wider than the column.
C4_EstimateCountsLines ==
    (pc \in {"toc", "done"} /\ k > 0) =>
        LET words == split(last.title)
        IN /\ get_string_width(last.title) < title_col_width => last.lines = 1
           /\ (\A n \in 1..Len(words) : get_string_width(words[n]) > title_col_width)
                  => last.lines = Len(words)

\* C5: a page is started right before a TOC entry is drawn exactly when the
\* cursor's Y plus the entry's estimated height (lines * 7) is at or past
\* the page-break trigger; the entry's first line is drawn on that page, or
\* else at the cursor where it was.
C5_BreakIffEstimateReachesTrigger ==
    (pc \in {"toc", "done"} /\ k > 0) =>
        LET reaches == last.y_before + estimate_lines(last.title) * line_height
                           >= page_break_trigger
        IN /\ (last.start_page = last.page_before + 1) <=> reaches
           /\ (last.start_page = last.page_before) <=> ~reaches
           /\ last.start_y = IF reaches THEN t_margin ELSE last.y_before
           /\ OnPage(last.start_page, Item("toc_title", k))

C5_Witness ==
    /\ pc = "toc"
    /\ k > 1
    /\ last.start_page = last.page_before + 1
    /\ last.y_before + last.lines * line_height = page_break_trigger

\* C6: a chapter whose detail-page fetch raised does not abort the run: its
\* page carries the inline error, the chapters after it are begun in order
\* on later pages, the run can always take its next step, and when it ends
\* the TOC is drawn for every chapter and the save was attempted.
FetchErrorHandled(n) ==
    /\ pc # "critical"
    /\ error = "none"
    /\ OnPage(toc_entries[n].page, Item("error_fetching", n))
    /\ \A m \in (n + 1)..i :
           /\ PagesOf(Item("title", m)) # {}
           /\ \A q \in PagesOf(Item("title", m)) : q > toc_entries[n].page

RunCompleted ==
    /\ pc = "done"
    /\ i = Len(chapters)
    /\ k = Len(chapters)
    /\ PagesOf(Item("toc_heading", 0)) # {}
    /\ \A m \in 1..Len(chapters) : PagesOf(Item("toc_page", m)) # {}
    /\ output \in {"written", "save_failed"}

C6_FetchErrorDoesNotAbort ==
    fetch_failed # {} =>
        /\ \A n \in fetch_failed : FetchErrorHandled(n)
        /\ pc # "done" => ENABLED CreateNext
        /\ pc = "done" => RunCompleted

C6_Witness ==
    /\ pc = "done"
    /\ 1 \in fetch_failed
    /\ Len(chapters) >= 2
    /\ 2 \notin fetch_failed
    /\ output = "written"

\* C7: a table of contents with zero chapter links makes get_book_details
\* fail with the structure error, create_book_pdf is not called and no
\* document is written.
C7_NoLinksIsStructureError ==
    toc_div = "no_links" =>
        /\ pc = "critical"
        /\ error = "ValueError: no chapters"
        /\ pages = <<>>
        /\ output = "none"

\* C8: an absent title element (no panel, a panel without an inner div, an
\* inner div without an h1) is not an error: the title is "Untitled Book"
\* and the chapter list is extracted.
C8_AbsentTitleIsPlaceholder ==
    panel \in {"no_panel", "panel_no_div", "div_no_h1"} =>
        IF toc_div = "links"
        THEN pc # "critical" /\ book_title = "Untitled Book"
        ELSE error \in {"ValueError: no table of contents", "ValueError: no chapters"}

\* C9: a chapter's temporary image file is gone when the next iteration
\* starts or the loop ends, and at most one exists at any time.
C9_TempFileScopedToIteration ==
    /\ Cardinality(temp_files) <= 1
    /\ pc \in {"loop", "toc", "done"} => temp_files = {}

\* C10: after a TOC entry is drawn the cursor is at or below the bottom of
\* the title block and of the page-number cell.
AtOrBelow(page1, y1, page2, y2) == page1 > page2 \/ (page1 = page2 /\ y1 >= y2)

C10_CursorBelowWholeEntry ==
    (pc \in {"toc", "done"} /\ k > 0) =>
        /\ AtOrBelow(last.end_page, last.end_y, last.title_end_page, last.title_end_y)
        /\ AtOrBelow(last.end_page, last.end_y, last.cell_end_page, last.cell_end_y)

==========================================================================
